---- MODULE Spec2Model ----
(***************************************************************************)
(* Model of standalone/encode.py: the udot instruction encoder and the     *)
(* line-rewriting driver around it.                                        *)
(*                                                                         *)
(* A line of text is a sequence of one-character strings.  The regular     *)
(* expressions of the source are kept as patterns (sequences of items) and *)
(* matched by a backtracking matcher with the semantics of re.search:      *)
(* leftmost start, greedy repetition, captures of the successful path.     *)
(***************************************************************************)
EXTENDS Integers, Sequences, FiniteSets, TLC

\* ------------------------------------------------------------------------
\* Characters
\* ------------------------------------------------------------------------
Digits == {"0", "1", "2", "3", "4", "5", "6", "7", "8", "9"}

LowerHex == Digits \cup {"a", "b", "c", "d", "e", "f"}

Letters ==
  {"a", "b", "c", "d", "e", "f", "g", "h", "i", "j", "k", "l", "m",
   "n", "o", "p", "q", "r", "s", "t", "u", "v", "w", "x", "y", "z",
   "A", "B", "C", "D", "E", "F", "G", "H", "I", "J", "K", "L", "M",
   "N", "O", "P", "Q", "R", "S", "T", "U", "V", "W", "X", "Y", "Z"}

\* \w of the re module: what \b separates from everything else
WordChars == Letters \cup Digits \cup {"_"}

DigitSeq == <<"0", "1", "2", "3", "4", "5", "6", "7", "8", "9">>

HexSeq == DigitSeq \o <<"a", "b", "c", "d", "e", "f">>

\* ------------------------------------------------------------------------
\* Patterns: the fragment of the re syntax the source uses
\* ------------------------------------------------------------------------
\* a run of literal characters
Lits(s) == [t |-> "str", s |-> s, cs |-> {}, any |-> FALSE, lo |-> 0, g |-> 0]

\* .  : any character but a newline
AnyChar == [t |-> "one", s |-> <<>>, cs |-> {}, any |-> TRUE, lo |-> 1, g |-> 0]

\* [S]
One(S) == [t |-> "one", s |-> <<>>, cs |-> S, any |-> FALSE, lo |-> 1, g |-> 0]

\* [S]*
Star(S) == [t |-> "rep", s |-> <<>>, cs |-> S, any |-> FALSE, lo |-> 0, g |-> 0]

\* [S]+
Plus(S) == [t |-> "rep", s |-> <<>>, cs |-> S, any |-> FALSE, lo |-> 1, g |-> 0]

\* \b
WordB == [t |-> "wb", s |-> <<>>, cs |-> {}, any |-> FALSE, lo |-> 0, g |-> 0]

\* ( and ) of capture group g
Open(g) == [t |-> "open", s |-> <<>>, cs |-> {}, any |-> FALSE, lo |-> 0, g |-> g]

Close(g) == [t |-> "close", s |-> <<>>, cs |-> {}, any |-> FALSE, lo |-> 0, g |-> g]

Sp == Star({" "})

\* number of capture groups any pattern of the source has at most
NGroups == 4

NoCaps == [g \in 1..NGroups |-> [s |-> 0, e |-> 0]]

NoMatch == [ok |-> FALSE, start |-> 0, end |-> 0, caps |-> NoCaps]

InClass(it, c) == IF it.any THEN c # "\n" ELSE c \in it.cs

IsWordAt(line, p) == p >= 1 /\ p <= Len(line) /\ line[p] \in WordChars

\* \b holds between position pos-1 and pos
AtWordBoundary(line, pos) == IsWordAt(line, pos - 1) # IsWordAt(line, pos)

\* the literal run s stands in line at pos
StandsAt(line, pos, s) ==
  pos + Len(s) - 1 <= Len(line) /\ SubSeq(line, pos, pos + Len(s) - 1) = s

\* how many characters from pos on belong to the item's class
RunLen(it, line, pos) ==
  LET stop == {p \in pos..Len(line) : ~InClass(it, line[p])} IN
  IF stop = {} THEN Len(line) + 1 - pos
  ELSE (CHOOSE p \in stop : \A q \in stop : p <= q) - pos

RECURSIVE MatchAt(_, _, _, _, _)
RECURSIVE TryCount(_, _, _, _, _, _)
\* match items i.. of pat against line from position pos
MatchAt(pat, i, line, pos, caps) ==
  IF i > Len(pat) THEN [ok |-> TRUE, start |-> 0, end |-> pos, caps |-> caps]
  ELSE CASE pat[i].t = "wb" ->
              IF AtWordBoundary(line, pos)
              THEN MatchAt(pat, i + 1, line, pos, caps) ELSE NoMatch
         [] pat[i].t = "open" ->
              MatchAt(pat, i + 1, line, pos, [caps EXCEPT ![pat[i].g].s = pos])
         [] pat[i].t = "close" ->
              MatchAt(pat, i + 1, line, pos, [caps EXCEPT ![pat[i].g].e = pos])
         [] pat[i].t = "str" ->
              IF StandsAt(line, pos, pat[i].s)
              THEN MatchAt(pat, i + 1, line, pos + Len(pat[i].s), caps) ELSE NoMatch
         [] pat[i].t = "one" ->
              IF pos <= Len(line) /\ InClass(pat[i], line[pos])
              THEN MatchAt(pat, i + 1, line, pos + 1, caps) ELSE NoMatch
         [] OTHER ->
              TryCount(pat, i, line, pos, caps, RunLen(pat[i], line, pos))

\* greedy repetition: the longest run first, then shorter ones
TryCount(pat, i, line, pos, caps, k) ==
  IF k < pat[i].lo THEN NoMatch
  ELSE LET r == MatchAt(pat, i + 1, line, pos + k, caps) IN
    IF r.ok THEN r ELSE TryCount(pat, i, line, pos, caps, k - 1)

Min(S) == CHOOSE x \in S : \A y \in S : x <= y

\* the start positions the pattern matches from
MatchStarts(pat, line) ==
  {s \in 1..(Len(line) + 1) : MatchAt(pat, 1, line, s, NoCaps).ok}

\* re.search(pat, line): the match from the leftmost start that has one
Search(pat, line) ==
  LET starts == MatchStarts(pat, line) IN
  IF starts = {} THEN NoMatch
  ELSE [MatchAt(pat, 1, line, Min(starts), NoCaps) EXCEPT !.start = Min(starts)]

\* m.group(0)
Group0(line, m) == SubSeq(line, m.start, m.end - 1)

\* m.group(g)
Group(line, m, g) == SubSeq(line, m.caps[g].s, m.caps[g].e - 1)

\* ------------------------------------------------------------------------
\* Numbers: int(), int(.., 16), '%x', '%d', | and <<
\* ------------------------------------------------------------------------
DigitVal(c) == CHOOSE k \in 0..15 : HexSeq[k + 1] = c

RECURSIVE ParseBase(_, _)
ParseBase(s, base) ==
  IF s = <<>> THEN 0
  ELSE ParseBase(SubSeq(s, 1, Len(s) - 1), base) * base + DigitVal(s[Len(s)])

\* int(s) of a string of decimal digits
ParseInt(s) == ParseBase(s, 10)

\* int(s, 16) of a string 0x<hex digits>: the prefix is accepted and skipped
ParseHex(s) == ParseBase(SubSeq(s, 3, Len(s)), 16)

RECURSIVE FormatBase(_, _)
FormatBase(n, base) ==
  IF n < base THEN <<HexSeq[n + 1]>>
  ELSE FormatBase(n \div base, base) \o <<HexSeq[(n % base) + 1]>>

\* '%x' % n
FormatHex(n) == FormatBase(n, 16)

\* '%d' % n
FormatDec(n) == FormatBase(n, 10)

RECURSIVE BitOr(_, _)
BitOr(a, b) ==
  IF a = 0 THEN b
  ELSE IF b = 0 THEN a
  ELSE (IF a % 2 = 1 \/ b % 2 = 1 THEN 1 ELSE 0) + 2 * BitOr(a \div 2, b \div 2)

RECURSIVE BitAnd(_, _)
BitAnd(a, b) ==
  IF a = 0 \/ b = 0 THEN 0
  ELSE (IF a % 2 = 1 /\ b % 2 = 1 THEN 1 ELSE 0) + 2 * BitAnd(a \div 2, b \div 2)

Shl(x, n) == x * (2 ^ n)

\* ------------------------------------------------------------------------
\* The recognition patterns
\* ------------------------------------------------------------------------
\* v([0-9]+)
Reg(g) == <<Lits(<<"v">>), Open(g), Plus(Digits), Close(g)>>

\* [ ]*.[ ]*<suffix>
Arrangement(suffix) == <<Sp, AnyChar, Sp, Lits(suffix)>>

\* [ ]*,[ ]*
Comma == <<Sp, Lits(<<",">>), Sp>>

\* \budot[ ]+v([0-9]+)[ ]*.[ ]*4s[ ]*,[ ]*v([0-9]+)[ ]*.[ ]*16b[ ]*,[ ]*v([0-9]+)
UdotPrefix ==
  <<WordB, Lits(<<"u", "d", "o", "t">>), Plus({" "})>>
    \o Reg(1) \o Arrangement(<<"4", "s">>) \o Comma
    \o Reg(2) \o Arrangement(<<"1", "6", "b">>) \o Comma
    \o Reg(3)

\* the pattern of encode_udot_vector
VectorPattern == UdotPrefix \o Arrangement(<<"1", "6", "b">>)

\* the pattern of encode_udot_element
ElementPattern ==
  UdotPrefix \o Arrangement(<<"4", "b">>)
    \o <<Sp, Lits(<<"[">>), Open(4), One(Digits), Close(4), Lits(<<"]">>)>>

\* \.word\ (0x[0-9a-f]+)
WordPattern ==
  <<Lits(<<".", "w", "o", "r", "d", " ">>), Open(1), Lits(<<"0", "x">>),
    Plus(LowerHex), Close(1)>>

\* ------------------------------------------------------------------------
\* Encoder
\* ------------------------------------------------------------------------
\* 0x6e809400
VectorBase == 1853920256

\* 0x6f80e000
ElementBase == 1870716928

\* what an encode function gives: a pair (mcode, match), or an AssertionError
Ret(mcode, match) == [st |-> "ok", mcode |-> mcode, match |-> match]

AssertionError == [st |-> "assert", mcode |-> 0, match |-> <<>>]

\* the upper limit off by one
InRange_loose(x, hi) == x >= 0 /\ x <= hi + 1

\* assert x >= 0 and x <= hi
InRange(x, hi) == x >= 0 /\ x <= hi

\* the left operand shifted to bit 4 instead of bit 5
VectorWord_lhs4(accum, lhs, rhs) ==
  BitOr(BitOr(BitOr(VectorBase, Shl(accum, 0)), Shl(lhs, 4)), Shl(rhs, 16))

VectorWord(accum, lhs, rhs) ==
  BitOr(BitOr(BitOr(VectorBase, Shl(accum, 0)), Shl(lhs, 5)), Shl(rhs, 16))

\* the two lane bits placed the other way round
ElementWord_swapped(accum, lhs, rhs, lanegroup) ==
  LET l == IF BitAnd(lanegroup, 1) # 0 THEN 1 ELSE 0
      h == IF BitAnd(lanegroup, 2) # 0 THEN 1 ELSE 0
  IN BitOr(BitOr(BitOr(BitOr(BitOr(ElementBase, Shl(accum, 0)), Shl(lhs, 5)),
                       Shl(rhs, 16)), Shl(l, 11)), Shl(h, 21))

\* the high lane bit left out of the word
ElementWord_noh(accum, lhs, rhs, lanegroup) ==
  LET l == IF BitAnd(lanegroup, 1) # 0 THEN 1 ELSE 0
  IN BitOr(BitOr(BitOr(BitOr(ElementBase, Shl(accum, 0)), Shl(lhs, 5)),
                 Shl(rhs, 16)), Shl(l, 21))

ElementWord(accum, lhs, rhs, lanegroup) ==
  LET l == IF BitAnd(lanegroup, 1) # 0 THEN 1 ELSE 0
      h == IF BitAnd(lanegroup, 2) # 0 THEN 1 ELSE 0
  IN BitOr(BitOr(BitOr(BitOr(BitOr(ElementBase, Shl(accum, 0)), Shl(lhs, 5)),
                       Shl(rhs, 16)), Shl(l, 21)), Shl(h, 11))

encode_udot_vector(line) ==
  LET m == Search(VectorPattern, line) IN
  IF ~m.ok THEN Ret(0, line)
  ELSE LET accum == ParseInt(Group(line, m, 1))
           lhs == ParseInt(Group(line, m, 2))
           rhs == ParseInt(Group(line, m, 3))
       IN IF InRange(accum, 31) /\ InRange(lhs, 31) /\ InRange(rhs, 31)
          THEN Ret(VectorWord(accum, lhs, rhs), Group0(line, m))
          ELSE AssertionError

encode_udot_element(line) ==
  LET m == Search(ElementPattern, line) IN
  IF ~m.ok THEN Ret(0, line)
  ELSE LET accum == ParseInt(Group(line, m, 1))
           lhs == ParseInt(Group(line, m, 2))
           rhs == ParseInt(Group(line, m, 3))
           lanegroup == ParseInt(Group(line, m, 4))
       IN IF InRange(accum, 31) /\ InRange(lhs, 31) /\ InRange(rhs, 31)
             /\ InRange(lanegroup, 3)
          THEN Ret(ElementWord(accum, lhs, rhs, lanegroup), Group0(line, m))
          ELSE AssertionError

\* the rules in their order; an AssertionError of a rule leaves the loop
encode(line) ==
  LET v == encode_udot_vector(line) IN
  IF v.st = "assert" \/ v.mcode # 0 THEN v
  ELSE LET e == encode_udot_element(line) IN
    IF e.st = "assert" \/ e.mcode # 0 THEN e
    ELSE Ret(0, line)

read_existing_encoding(line) ==
  LET m == Search(WordPattern, line) IN
  IF m.ok THEN ParseHex(Group(line, m, 1)) ELSE 0

\* ------------------------------------------------------------------------
\* Rewriting
\* ------------------------------------------------------------------------
\* the positions of s at which old occurs
Occurrences(s, old) ==
  {p \in 1..(Len(s) - Len(old) + 1) : SubSeq(s, p, p + Len(old) - 1) = old}

RECURSIVE Replace(_, _, _)
\* s.replace(old, new): every non-overlapping occurrence, left to right
Replace(s, old, new) ==
  LET occ == Occurrences(s, old) IN
  IF occ = {} THEN s
  ELSE SubSeq(s, 1, Min(occ) - 1) \o new
         \o Replace(SubSeq(s, Min(occ) + Len(old), Len(s)), old, new)

\* '.word 0x%x  // %s' % (mcode, match)
Annotation(mcode, match) ==
  <<".", "w", "o", "r", "d", " ", "0", "x">> \o FormatHex(mcode)
    \o <<" ", " ", "/", "/", " ">> \o match

\* s.replace(old, new, 1): the first occurrence only
ReplaceFirst(s, old, new) ==
  LET occ == Occurrences(s, old) IN
  IF occ = {} THEN s
  ELSE SubSeq(s, 1, Min(occ) - 1) \o new \o SubSeq(s, Min(occ) + Len(old), Len(s))

Rewrite_first(line, mcode, match) ==
  ReplaceFirst(line, match, Annotation(mcode, match))

Rewrite(line, mcode, match) == Replace(line, match, Annotation(mcode, match))

\* ------------------------------------------------------------------------
\* Input text
\* ------------------------------------------------------------------------
\* largest number of lines of an input stream
MaxLines == 2

\* largest register index written in an operand
MaxReg == 32

\* largest lane group written in an element operand
MaxLane == 9

NL == <<"\n">>

\* udot v<a>.4s, v<l>.16b, v<r>.16b
VectorText(a, l, r) ==
  <<"u", "d", "o", "t", " ", "v">> \o FormatDec(a) \o <<".", "4", "s", ",", " ", "v">> \o FormatDec(l)
    \o <<".", "1", "6", "b", ",", " ", "v">> \o FormatDec(r) \o <<".", "1", "6", "b">>

\* udot v<a>.4s, v<l>.16b, v<r>.4b[<g>]
ElementText(a, l, r, g) ==
  <<"u", "d", "o", "t", " ", "v">> \o FormatDec(a) \o <<".", "4", "s", ",", " ", "v">> \o FormatDec(l)
    \o <<".", "1", "6", "b", ",", " ", "v">> \o FormatDec(r) \o <<".", "4", "b", "[">> \o FormatDec(g) \o <<"]">>

\* the same instructions written with spaces wherever the patterns allow them
VectorSpaced(a, l, r) ==
  <<"u", "d", "o", "t", " ", " ", "v">> \o FormatDec(a) \o <<" ", ".", " ", "4", "s", " ", ",", " ", "v">> \o FormatDec(l)
    \o <<" ", ".", " ", "1", "6", "b", " ", ",", " ", " ", "v">> \o FormatDec(r) \o <<" ", ".", " ", "1", "6", "b">>

ElementSpaced(a, l, r, g) ==
  <<"u", "d", "o", "t", " ", " ", "v">> \o FormatDec(a) \o <<" ", ".", " ", "4", "s", " ", ",", " ", "v">> \o FormatDec(l)
    \o <<" ", ".", " ", "1", "6", "b", " ", ",", " ", " ", "v">> \o FormatDec(r) \o <<" ", ".", " ", "4", "b", " ", "[">> \o FormatDec(g) \o <<"]">>

\* .word 0x<hex>  //<space>
Directive(hex) == <<".", "w", "o", "r", "d", " ", "0", "x">> \o hex \o <<" ", " ", "/", "/", " ">>

Sep == <<";", " ">>

I1 == VectorText(16, 4, 0)

I2 == VectorText(0, 1, 2)

I3 == ElementText(1, 2, 3, 2)

\* the lines the input streams of the driver are made of
LineSet ==
  { <<"n", "o", "p", "\n">>,
    <<".", "w", "o", "r", "d", " ", "0", "x", "5", "\n">>,
    I1 \o NL,
    VectorText(MaxReg, 0, 0) \o NL,
    <<"x">> \o I1 \o NL,
    I3 \o NL,
    ElementText(1, 2, 3, 4) \o NL,
    Directive(<<"6", "e", "8", "0", "9", "4", "9", "0">>) \o I1 \o NL,
    Directive(<<"6", "e", "8", "0", "9", "4", "9", "1">>) \o I1 \o NL,
    Directive(<<"0">>) \o I1 \o NL,
    Directive(<<"6", "E", "8", "0", "9", "4", "9", "0">>) \o I1 \o NL,
    Directive(<<"6", "f", "8", "3", "e", "8", "4", "1">>) \o I3 \o NL,
    I1 \o Sep \o I1 \o NL,
    I1 \o Sep \o I2 \o NL,
    I3 \o Sep \o I1 \o NL }

Inputs == UNION {[1..n -> LineSet] : n \in 0..MaxLines}

\* (form, operands, spacing) of the lines the encoder is applied to alone: every
\* index up to MaxReg in each operand position, the other two at 10 or 31, and
\* the operands of the two documented examples
Corner == {10, 31}

Triples ==
  {t \in (0..MaxReg) \X (0..MaxReg) \X (0..MaxReg) :
     Cardinality({i \in 1..3 : t[i] \in Corner}) >= 2}
    \cup {<<16, 4, 0>>, <<1, 2, 3>>}

OperandSet ==
  {[form |-> "vector", a |-> t[1], l |-> t[2], r |-> t[3], g |-> 0, spaced |-> b] :
      t \in Triples, b \in BOOLEAN}
    \cup
  {[form |-> "element", a |-> t[1], l |-> t[2], r |-> t[3], g |-> g, spaced |-> b] :
      t \in Triples, g \in 0..MaxLane, b \in BOOLEAN}

NoOperands == [form |-> "none", a |-> 0, l |-> 0, r |-> 0, g |-> 0, spaced |-> FALSE]

InstrText(o) ==
  IF o.form = "vector"
  THEN (IF o.spaced THEN VectorSpaced(o.a, o.l, o.r) ELSE VectorText(o.a, o.l, o.r))
  ELSE (IF o.spaced THEN ElementSpaced(o.a, o.l, o.r, o.g)
        ELSE ElementText(o.a, o.l, o.r, o.g))

\* a spaced instruction stands between a label and a trailing comment
LineOf(o) ==
  IF o.spaced THEN <<"1", ":", " ">> \o InstrText(o) \o <<" ", " ", "/", "/", " ", "d", "o", "t">> \o NL
  ELSE InstrText(o) \o NL

\* ------------------------------------------------------------------------
\* State
\* ------------------------------------------------------------------------
VARIABLES
  input,                      \* sys.stdin: the lines of the stream
  lineno,                     \* lines read so far
  found_existing_encodings,
  found_error,
  stdout,                     \* the lines written to sys.stdout
  stderr,                     \* the messages written to sys.stderr
  pc,                         \* "loop", "done" (ran to its end), "aborted"
  exit_status,                \* -1 while the program runs
  pass,                       \* 1: the run on the input, 2: the run on its output
  log,                        \* history: what was done with each line read
  first,                      \* history: the first run, kept for the second
  ops,                        \* the operands a lone encoder line was written from
  res                         \* the result of the encoder applied to that line

vars ==
  <<input, lineno, found_existing_encodings, found_error, stdout, stderr, pc,
    exit_status, pass, log, first, ops, res>>

NoRun == [input |-> <<>>, stdout |-> <<>>, stderr |-> <<>>, log |-> <<>>,
          pc |-> "none", exit_status |-> -1]

NoResult == [fn |-> "none", st |-> "none", mcode |-> 0, match |-> <<>>]

\* ------------------------------------------------------------------------
\* Driver
\* ------------------------------------------------------------------------
\* the line number counted from 0
ErrorMessage_from0(n, existing_encoding, mcode, match, line) ==
  [kind |-> "error",
   text |-> <<"Error at line ", FormatDec(n - 1), ": existing encoding 0x",
              FormatHex(existing_encoding), " differs from encoding 0x",
              FormatHex(mcode), " for instruction '", match, "':\n\n", line,
              "\n\n">>]

\* "Error at line %d: existing encoding 0x%x differs from encoding 0x%x for
\*  instruction '%s':\n\n%s\n\n" % (lineno, existing_encoding, mcode, match, line)
ErrorMessage(n, existing_encoding, mcode, match, line) ==
  [kind |-> "error",
   text |-> <<"Error at line ", FormatDec(n), ": existing encoding 0x",
              FormatHex(existing_encoding), " differs from encoding 0x",
              FormatHex(mcode), " for instruction '", match, "':\n\n", line,
              "\n\n">>]

Note ==
  [kind |-> "note",
   text |-> <<"Note: some instructions that this program is able to encode, were already encoded. These encodings have been checked.\n">>]

\* the existing encoding looked at whether or not a rule matched
Matched_always(mcode) == TRUE

\* if mcode:
Matched(mcode) == mcode # 0

\* if existing_encoding:
Present(existing_encoding) == existing_encoding # 0

\* if mcode != existing_encoding:
Differs(mcode, existing_encoding) == mcode # existing_encoding

\* the conflict flag not carried to the exit status
ExitStatus_zero(error) == 0

\* the status the process ends with when the loop has ended
ExitStatus(error) == IF error THEN 1 ELSE 0

\* the status of a process ended by an uncaught AssertionError
AbortStatus == 1

\* the line put in front of what was written
Emit_front(out, line) == <<line>> \o out

\* sys.stdout.write(line)
Emit(out, line) == Append(out, line)

Entry(kind, mcode, existing, match) ==
  [kind |-> kind, mcode |-> mcode, existing |-> existing, match |-> match]

\* one iteration of the loop over sys.stdin
ProcessLine ==
  /\ pc = "loop"
  /\ lineno < Len(input)
  /\ lineno' = lineno + 1
  /\ LET line == input[lineno + 1]
         r == encode(line)
         existing_encoding == read_existing_encoding(line)
     IN
     IF r.st = "assert"
     THEN /\ pc' = "aborted"
          /\ exit_status' = AbortStatus
          /\ log' = Append(log, Entry("assert", 0, 0, <<>>))
          /\ UNCHANGED <<found_existing_encodings, found_error, stdout, stderr>>
     ELSE /\ UNCHANGED <<pc, exit_status>>
          /\ IF ~Matched(r.mcode)
             THEN /\ stdout' = Emit(stdout, line)
                  /\ log' = Append(log, Entry("nomatch", 0, 0, r.match))
                  /\ UNCHANGED <<found_existing_encodings, found_error, stderr>>
             ELSE IF Present(existing_encoding)
             THEN /\ found_existing_encodings' = TRUE
                  /\ stdout' = Emit(stdout, line)
                  /\ IF Differs(r.mcode, existing_encoding)
                     THEN /\ stderr' = Append(stderr,
                                 ErrorMessage(lineno + 1, existing_encoding,
                                              r.mcode, r.match, line))
                          /\ found_error' = TRUE
                          /\ log' = Append(log, Entry("conflict", r.mcode,
                                                      existing_encoding, r.match))
                     ELSE /\ log' = Append(log, Entry("checked", r.mcode,
                                                      existing_encoding, r.match))
                          /\ UNCHANGED <<found_error, stderr>>
             ELSE /\ stdout' = Emit(stdout, Rewrite(line, r.mcode, r.match))
                  /\ log' = Append(log, Entry("rewritten", r.mcode, 0, r.match))
                  /\ UNCHANGED <<found_existing_encodings, found_error, stderr>>
  /\ UNCHANGED <<input, pass, first, ops, res>>

\* the statements after the loop
EndOfRun ==
  /\ pc = "loop"
  /\ lineno = Len(input)
  /\ pc' = "done"
  /\ exit_status' = ExitStatus(found_error)
  /\ stderr' = IF ~found_error /\ found_existing_encodings
               THEN Append(stderr, Note) ELSE stderr
  /\ UNCHANGED <<input, lineno, found_existing_encodings, found_error, stdout,
                 pass, log, first, ops, res>>

\* the program is run again, on what it wrote
RunOnOutput ==
  /\ pass = 1
  /\ pc \in {"done", "aborted"}
  /\ first' = [input |-> input, stdout |-> stdout, stderr |-> stderr, log |-> log,
               pc |-> pc, exit_status |-> exit_status]
  /\ input' = stdout
  /\ pass' = 2
  /\ lineno' = 0
  /\ found_existing_encodings' = FALSE
  /\ found_error' = FALSE
  /\ stdout' = <<>>
  /\ stderr' = <<>>
  /\ log' = <<>>
  /\ pc' = "loop"
  /\ exit_status' = -1
  /\ UNCHANGED <<ops, res>>

Init ==
  /\ input \in Inputs
  /\ lineno = 0
  /\ found_existing_encodings = FALSE
  /\ found_error = FALSE
  /\ stdout = <<>>
  /\ stderr = <<>>
  /\ pc = "loop"
  /\ exit_status = -1
  /\ pass = 1
  /\ log = <<>>
  /\ first = NoRun
  /\ ops = NoOperands
  /\ res = NoResult

Next == ProcessLine \/ EndOfRun \/ RunOnOutput

Spec == Init /\ [][Next]_vars

\* ------------------------------------------------------------------------
\* The encoder functions applied to one line
\* ------------------------------------------------------------------------
Result(fn, r) == [fn |-> fn, st |-> r.st, mcode |-> r.mcode, match |-> r.match]

CallVector ==
  /\ pc = "call"
  /\ res' = Result("vector", encode_udot_vector(input[1]))
  /\ pc' = "returned"
  /\ UNCHANGED <<input, lineno, found_existing_encodings, found_error, stdout,
                 stderr, exit_status, pass, log, first, ops>>

CallElement ==
  /\ pc = "call"
  /\ res' = Result("element", encode_udot_element(input[1]))
  /\ pc' = "returned"
  /\ UNCHANGED <<input, lineno, found_existing_encodings, found_error, stdout,
                 stderr, exit_status, pass, log, first, ops>>

CallEncode ==
  /\ pc = "call"
  /\ res' = Result("encode", encode(input[1]))
  /\ pc' = "returned"
  /\ UNCHANGED <<input, lineno, found_existing_encodings, found_error, stdout,
                 stderr, exit_status, pass, log, first, ops>>

InitEnc ==
  /\ ops \in OperandSet
  /\ input = <<LineOf(ops)>>
  /\ lineno = 0
  /\ found_existing_encodings = FALSE
  /\ found_error = FALSE
  /\ stdout = <<>>
  /\ stderr = <<>>
  /\ pc = "call"
  /\ exit_status = -1
  /\ pass = 1
  /\ log = <<>>
  /\ first = NoRun
  /\ res = NoResult

NextEnc == CallVector \/ CallElement \/ CallEncode

SpecEnc == InitEnc /\ [][NextEnc]_vars

\* ------------------------------------------------------------------------
\* Properties
\* ------------------------------------------------------------------------
Returned(fn, form) == pc = "returned" /\ res.fn = fn /\ ops.form = form

RegsValid == ops.a <= 31 /\ ops.l <= 31 /\ ops.r <= 31

\* the word fits in 32 bits
Fits32(w) == w >= 0 /\ w \div 65536 < 65536

\* C1: on a line holding the vector form with accumulator, left and right
\* register indices in 0..31, encode_udot_vector returns the word
\* 0x6e809400 | accum | (lhs << 5) | (rhs << 16): accum in bits [4:0], lhs in
\* bits [9:5], rhs in bits [20:16], the word nonzero and within 32 bits, and
\* 'udot v16.4s, v4.16b, v0.16b' gives 0x6e809490.
C1_VectorEncoding ==
  (Returned("vector", "vector") /\ RegsValid) =>
    /\ res.st = "ok"
    /\ res.mcode = 1853920256 + ops.a + 32 * ops.l + 65536 * ops.r
    /\ res.mcode % 32 = ops.a
    /\ (res.mcode \div 32) % 32 = ops.l
    /\ (res.mcode \div 65536) % 32 = ops.r
    /\ res.mcode # 0
    /\ Fits32(res.mcode)
    /\ res.match = InstrText(ops)
    /\ (ops.a = 16 /\ ops.l = 4 /\ ops.r = 0 => res.mcode = 1853920400)

C1_Witness ==
  /\ Returned("vector", "vector")
  /\ input = <<<<"u", "d", "o", "t", " ", "v", "1", "6", ".", "4", "s", ",", " ", "v", "4", ".", "1", "6", "b", ",", " ", "v", "0", ".", "1", "6", "b", "\n">>>>
  /\ res.st = "ok"
  /\ res.mcode = 1853920400

\* C2: on a line holding the element form with register indices in 0..31 and
\* lane group g in 0..3, encode_udot_element returns the word 0x6f80e000 |
\* accum | (lhs << 5) | (rhs << 16) | ((g & 1) << 21) | (((g >> 1) & 1) << 11):
\* the low bit of the lane group in bit 21, the high bit in bit 11.
C2_ElementEncoding ==
  (Returned("element", "element") /\ RegsValid /\ ops.g <= 3) =>
    /\ res.st = "ok"
    /\ res.mcode = 1870716928 + ops.a + 32 * ops.l + 65536 * ops.r
                     + 2097152 * (ops.g % 2) + 2048 * ((ops.g \div 2) % 2)
    /\ (res.mcode \div 2097152) % 2 = ops.g % 2
    /\ (res.mcode \div 2048) % 2 = ops.g \div 2
    /\ res.match = InstrText(ops)

C2_Witness ==
  /\ Returned("element", "element")
  /\ ops.g = 1
  /\ ops.a = 31
  /\ res.st = "ok"
  /\ (res.mcode \div 2097152) % 2 = 1
  /\ (res.mcode \div 2048) % 2 = 0

ExampleElementLine == <<"u", "d", "o", "t", " ", "v", "1", ".", "4", "s", ",", " ", "v", "2", ".", "1", "6", "b", ",", " ", "v", "3", ".", "4", "b", "[", "2", "]", "\n">>

\* C3 as stated: the single input line 'udot v1.4s, v2.16b, v3.4b[2]' comes
\* out as '.word 0x6f83e041  // udot v1.4s, v2.16b, v3.4b[2]', exit status 0.
C3_Original ==
  (pass = 1 /\ pc = "done" /\ input = <<ExampleElementLine>>) =>
    /\ stdout = <<<<".", "w", "o", "r", "d", " ", "0", "x", "6", "f", "8", "3", "e", "0", "4", "1", " ", " ", "/", "/", " ", "u", "d", "o", "t", " ", "v", "1", ".", "4", "s", ",", " ", "v", "2", ".", "1", "6", "b", ",", " ", "v", "3", ".", "4", "b", "[", "2", "]", "\n">>>>
    /\ exit_status = 0

\* C3, amended: the single input line 'udot v1.4s, v2.16b, v3.4b[2]' (accum 1,
\* lhs 2, rhs 3, lane group 2, so l = 0 and h = 1) gives the word 0x6f83e841
\* (bit 11 set by h), is written as
\* '.word 0x6f83e841  // udot v1.4s, v2.16b, v3.4b[2]', and the exit status is 0.
C3_ExampleElement ==
  (pass = 1 /\ pc = "done" /\ input = <<ExampleElementLine>>) =>
    /\ stdout = <<<<".", "w", "o", "r", "d", " ", "0", "x", "6", "f", "8", "3", "e", "8", "4", "1", " ", " ", "/", "/", " ", "u", "d", "o", "t", " ", "v", "1", ".", "4", "s", ",", " ", "v", "2", ".", "1", "6", "b", ",", " ", "v", "3", ".", "4", "b", "[", "2", "]", "\n">>>>
    /\ log[1].mcode = 1870915649
    /\ stderr = <<>>
    /\ exit_status = 0

C3_Witness ==
  /\ pass = 1
  /\ pc = "done"
  /\ input = <<ExampleElementLine>>
  /\ Len(stdout) = 1
  /\ exit_status = 0

\* C4 as stated: run on its own output, the program writes that output again;
\* every line the first run rewrote is found annotated with the matching word
\* on the second run, is left as it is and raises no conflict, and after a
\* first run without conflict the note is written.
C4_Idempotent ==
  pass = 2 =>
    /\ \A i \in 1..Len(log) :
         /\ stdout[i] = input[i]
         /\ first.log[i].kind = "rewritten" => log[i].kind = "checked"
    /\ (pc = "done" /\ first.pc = "done" /\ first.exit_status = 0
          /\ \E i \in 1..Len(first.log) : first.log[i].kind = "rewritten")
       => (stderr = <<Note>> /\ exit_status = 0)

\* the line has a recognised instruction (no assertion fails) and an existing
\* nonzero word that is not the computed one
Conflicting(line) ==
  /\ encode(line).st = "ok"
  /\ encode(line).mcode # 0
  /\ read_existing_encoding(line) # 0
  /\ read_existing_encoding(line) # encode(line).mcode

Asserting(line) == encode(line).st = "assert"

Ended == pc \in {"done", "aborted"}

LastErr == stderr'[Len(stderr')]

\* C6: a line with a recognised instruction and an existing nonzero word that
\* differs from the computed one gets one message on the error stream with its
\* 1-based line number, the existing word and the computed word; the conflict
\* flag is set, the line is written as it was read, and the loop goes on.
C6_Conflict ==
  [][(pc = "loop" /\ lineno' = lineno + 1 /\ Conflicting(input[lineno + 1])) =>
       /\ Len(stderr') = Len(stderr) + 1
       /\ SubSeq(stderr', 1, Len(stderr)) = stderr
       /\ LastErr.kind = "error"
       /\ ParseInt(LastErr.text[2]) = lineno + 1
       /\ ParseHex(<<"0", "x">> \o LastErr.text[4])
            = read_existing_encoding(input[lineno + 1])
       /\ ParseHex(<<"0", "x">> \o LastErr.text[6]) = encode(input[lineno + 1]).mcode
       /\ (input[lineno + 1] = <<".", "w", "o", "r", "d", " ", "0", "x", "6", "e", "8", "0", "9", "4", "9", "1", " ", " ", "/", "/", " ", "u", "d", "o", "t", " ", "v", "1", "6", ".", "4", "s", ",", " ", "v", "4", ".", "1", "6", "b", ",", " ", "v", "0", ".", "1", "6", "b", "\n">> =>
             /\ LastErr.text[4] = <<"6", "e", "8", "0", "9", "4", "9", "1">>
             /\ LastErr.text[6] = <<"6", "e", "8", "0", "9", "4", "9", "0">>)
       /\ found_error'
       /\ stdout' = Append(stdout, input[lineno + 1])
       /\ pc' = "loop"]_vars

C6_Witness ==
  /\ lineno = 2
  /\ Conflicting(input[1])
  /\ Len(stderr) >= 1
  /\ stderr[1].kind = "error"
  /\ found_error
  /\ stdout[1] = input[1]
  /\ Len(stdout) = 2

Derived(i) ==
  \/ stdout[i] = input[i]
  \/ /\ log[i].kind = "rewritten"
     /\ Replace(stdout[i], Annotation(log[i].mcode, log[i].match), log[i].match)
          = input[i]

C8_NoMatchFrame ==
  [][(pc = "loop" /\ lineno' = lineno + 1
        /\ encode(input[lineno + 1]) = Ret(0, input[lineno + 1])) =>
       /\ stdout' = Append(stdout, input[lineno + 1])
       /\ stderr' = stderr
       /\ found_existing_encodings' = found_existing_encodings
       /\ found_error' = found_error]_vars

C8_Witness ==
  /\ lineno = 1
  /\ input[1] = <<".", "w", "o", "r", "d", " ", "0", "x", "5", "\n">>
  /\ stdout = <<<<".", "w", "o", "r", "d", " ", "0", "x", "5", "\n">>>>
  /\ stderr = <<>>
  /\ ~found_existing_encodings
  /\ ~found_error

\* the vector rule is tried first: its word is the one used when it matches,
\* the word of the element rule otherwise
RuleOrder(i) ==
  IF Search(VectorPattern, input[i]).ok
  THEN /\ log[i].mcode \div 16777216 = 110
       /\ log[i].match = Group0(input[i], Search(VectorPattern, input[i]))
  ELSE /\ log[i].mcode \div 16777216 = 111
       /\ log[i].match = Group0(input[i], Search(ElementPattern, input[i]))

Rewritten(i) == i \in 1..Len(stdout) /\ log[i].kind = "rewritten"

Count(s, t) == Cardinality(Occurrences(s, t))

\* C10 as stated: the rules are tried in the order vector, element, and a
\* rewritten line has one occurrence of the instruction replaced, the rest of
\* the line, a second occurrence of the same instruction included, left as it
\* was.
C10_Original ==
  \A i \in 1..Len(stdout) :
    log[i].kind = "rewritten" =>
      /\ RuleOrder(i)
      /\ stdout[i] = ReplaceFirst(input[i], log[i].match,
                                  Annotation(log[i].mcode, log[i].match))

\* C10, amended: the rules are tried in the order vector, element, and the
\* first that matches decides the word and the matched text; when the line is
\* rewritten every occurrence of the matched text on the line is replaced by
\* '.word 0x<hex>  // <matched text>', a second occurrence of the same
\* instruction text included; all other text, an occurrence of another
\* recognisable instruction included, is left as it was.
C10_Rewrite ==
  \A i \in 1..Len(stdout) :
    log[i].kind = "rewritten" =>
      LET a == Annotation(log[i].mcode, log[i].match) IN
      /\ RuleOrder(i)
      /\ Count(stdout[i], a) = Count(input[i], log[i].match)
      /\ Count(stdout[i], log[i].match) = Count(input[i], log[i].match)
      /\ Len(stdout[i]) =
           Len(input[i]) + Count(input[i], log[i].match) * (Len(a) - Len(log[i].match))
      /\ Replace(stdout[i], a, log[i].match) = input[i]

C10_Witness ==
  /\ pass = 1
  /\ Rewritten(1)
  /\ Count(input[1], log[1].match) = 2
  /\ Count(stdout[1], <<".", "w", "o", "r", "d", " ", "0", "x", "6", "e", "8", "0", "9", "4", "9", "0", " ", " ", "/", "/", " ", "u", "d", "o", "t", " ", "v", "1", "6", ".", "4", "s", ",", " ", "v", "4", ".", "1", "6", "b", ",", " ", "v", "0", ".", "1", "6", "b">>) = 2

Recognised == ops.form = "vector" \/ ops.g <= 9

OutOfRange ==
  ops.a > 31 \/ ops.l > 31 \/ ops.r > 31 \/ (ops.form = "element" /\ ops.g > 3)

====
